---- MODULE Spec2Model ----
(***************************************************************************)
(* Event / attendee consistency engine of calendarsnack-event-management.  *)
(*                                                                         *)
(* The store is the single DynamoDB table, split by entity (key prefix):   *)
(*   lookup     original_event#<original_uid>  -> OriginalEventLookup      *)
(*   events     event#<uid>                    -> Event                    *)
(*   attendees  event#<uid> / attendee#<email> -> AttendeeRecord           *)
(*   stats      *_statistics#<key>             -> StatisticsRecord         *)
(* A record exists iff its key is in the DOMAIN of the function.           *)
(*                                                                         *)
(* Every SQS message of the workload has its own Lambda invocation; one    *)
(* step of the model is one call of a handler on an external service (a    *)
(* store read, a store write or transaction, a publish, a delete of the    *)
(* message).  Any such call may raise: Fail.                               *)
(***************************************************************************)
EXTENDS Integers, Sequences, FiniteSets, TLC

\* ------------------------------------------------------------------ bounds
\* Injected transient failures (a raised store, publish or delete call).
MaxFaults == 1
\* Last value of the wall clock (seconds); the clock stops there.
MaxClock == 1

\* --------------------------------------------------------------- constants
\* environ["EVENT_INVITE_LIMIT"], the invite allowance of a new event.
EVENT_INVITE_LIMIT == 3

\* Python's None (a key absent from a message read with .get).
NoneVal == "<None>"

\* str(value) as used when a field is written to the store: str(None) is the
\* four-letter string, every modelled string is itself.
Str(value) == IF value = NoneVal THEN "None" ELSE value

Statuses == {"accepted", "declined", "tentative", "noaction"}

\* update_fields(): the eight compared and overwritten fields.
update_fields ==
  {"summary", "summary_html", "location", "location_html",
   "dtend", "dtstart", "description", "description_html"}

\* The string-typed ones among them (written with str(), type S); dtend and
\* dtstart are written as numbers (type N).
string_fields ==
  {"summary", "summary_html", "location", "location_html",
   "description", "description_html"}

\* ---------------------------------------------------------------- messages
\* One record shape for every message kind; a kind reads only its own fields.
BlankContent ==
  [summary |-> "", summary_html |-> "", location |-> "", location_html |-> "",
   dtend |-> 0, dtstart |-> 0, description |-> "", description_html |-> ""]

BlankMsg ==
  [kind |-> "", original_uid |-> "", uid |-> "", mailto |-> "",
   sequence |-> 0, content |-> BlankContent,
   email |-> "", origin |-> "", prodid |-> "", partstat |-> ""]

\* A new-event request (NEW_EVENT_REQUEST): uid is the S3 key of the email.
CreateMsg(original_uid, uid, mailto, content) ==
  [BlankMsg EXCEPT !.kind = "create", !.original_uid = original_uid,
                   !.uid = uid, !.mailto = mailto, !.content = content]

UpdateMsg(original_uid, content) ==
  [BlankMsg EXCEPT !.kind = "update", !.original_uid = original_uid,
                   !.content = content]

CancelMsg(original_uid) ==
  [BlankMsg EXCEPT !.kind = "cancel", !.original_uid = original_uid]

\* A verified invite (NEW_EVENT_INVITE): request plus the event's organizer.
InviteMsg(uid, mailto, email, origin, prodid, partstat) ==
  [BlankMsg EXCEPT !.kind = "invite", !.uid = uid, !.mailto = mailto,
                   !.email = email, !.origin = origin, !.prodid = prodid,
                   !.partstat = partstat]

\* A reply (NEW_EVENT_REPLY).
RsvpMsg(uid, email, partstat, prodid) ==
  [BlankMsg EXCEPT !.kind = "rsvp", !.uid = uid, !.email = email,
                   !.partstat = partstat, !.prodid = prodid]

ContentA ==
  [summary |-> "standup", summary_html |-> NoneVal,
   location |-> "room 1", location_html |-> "room 1",
   dtend |-> 20, dtstart |-> 10,
   description |-> "daily", description_html |-> "daily"]

\* ContentB and ContentC carry every field.
ContentB ==
  [ContentA EXCEPT !.summary_html = "standup",
                   !.location = "room 2", !.location_html = "room 2"]

ContentC ==
  [ContentA EXCEPT !.summary = "retro", !.summary_html = "retro",
                   !.dtend = 30]



\* ------------------------------------------------------------------- state
VARIABLES
  lookup,      \* original_uid -> [uid, mailto]         (OriginalEventLookup)
  events,      \* uid -> Event record
  attendees,   \* <<uid, email>> -> AttendeeRecord
  stats,       \* <<scope, key>> -> StatisticsRecord
  msgs,        \* the messages put on the queues (fixed by Init)
  acked,       \* message id -> deleted from its queue
  proc,        \* message id -> the invocation handling it (pc and locals)
  published,   \* <<topic, uid>> -> number of notifications published
  sent,        \* <<uid, email>> -> number of invite emails sent
  clock,       \* last value read from datetime.utcnow()
  faults,      \* injected failures so far
  tasks        \* batch -> the lambda_handler invocation working on it

vars ==
  <<lookup, events, attendees, stats, msgs, acked, proc, published, sent,
    clock, faults, tasks>>

store == <<lookup, events, attendees, stats>>

Ids == DOMAIN msgs

Topics == {"NEW_EVENT_CREATED", "EVENT_UPDATED", "EVENT_CANCELLED"}

\* An invocation that is not running.
IdleProc ==
  [pc |-> "idle", res |-> "", uid |-> "", sequence |-> 0, status |-> "",
   previous_status |-> "", organizer |-> ""]

\* Statistics keys.
event_statistics(uid) == <<"event_statistics", uid>>
organizer_statistics(mailto) == <<"organizer_statistics", mailto>>
system_statistics == <<"system_statistics", "">>

\* A statistics record with every counter at zero (the item put by
\* create_organizer_statistics_record and get_statistics_record_for; `events`
\* is only read on organizer records).
ZeroStatistics ==
  [events |-> 0, attendees |-> 0, origin |-> <<>>, prodid |-> <<>>,
   rsvp |-> [s \in Statuses |-> 0]]

\* datetime.utcnow(): time does not run backwards, and stops at MaxClock.
Now == {t \in clock .. clock + 1 : t <= MaxClock}

\* The organizers whose suspended#<email> record exists (read-only here).
SuspendedAccounts == {"suspended@x.com"}

account_is_suspended(organizer_email) == organizer_email \in SuspendedAccounts

\* The state right after deployment: an empty table but for the seeded
\* system statistics record, and the workload `workload` on the queues.
InitWith(workload) ==
  /\ lookup = <<>>
  /\ events = <<>>
  /\ attendees = <<>>
  /\ stats = (system_statistics :> ZeroStatistics)
  /\ msgs = workload
  /\ acked = [m \in DOMAIN workload |-> FALSE]
  /\ proc = [m \in DOMAIN workload |-> IdleProc]
  /\ published = [k \in {} |-> 0]
  /\ sent = [k \in {} |-> 0]
  /\ clock = 0
  /\ faults = 0
  /\ tasks = <<>>

\* One more entry in a bag of counts.
Count(bag, key) == IF key \in DOMAIN bag THEN bag[key] ELSE 0
Add(bag, key) ==
  IF key \in DOMAIN bag THEN [bag EXCEPT ![key] = @ + 1] ELSE bag @@ (key :> 1)

\* ------------------------------------------------------ message processing
FirstStep(kind) ==
  CASE kind = "create" -> "get_organizer_details"
    [] kind = "update" -> "update_get_event"
    [] kind = "cancel" -> "cancel_get_event"
    [] kind = "invite" -> "attendee_has_not_been_sent"
    [] kind = "rsvp"   -> "get_current_attendee_record_for"

\* SQS hands a message that was not deleted to a new invocation.
Deliver(m) ==
  /\ proc[m].pc = "idle"
  /\ ~acked[m]
  /\ proc' = [proc EXCEPT ![m] = [IdleProc EXCEPT !.pc = FirstStep(msgs[m].kind)]]
  /\ UNCHANGED <<store, msgs, tasks, acked, published, sent, clock, faults>>

\* (mutant) the exception is swallowed inside process_request_from.
RaisedAndSwallowed(m) == [IdleProc EXCEPT !.res = "Skipped"]

\* The invocation ends by an exception: the message stays on the queue and
\* the handler counts it as failed.
Raised(m) == [IdleProc EXCEPT !.res = "Failed"]

\* The next call of the invocation (store, SNS, SES or SQS) raises.
Fail(m) ==
  /\ proc[m].pc # "idle"
  /\ faults < MaxFaults
  /\ faults' = faults + 1
  /\ proc' = [proc EXCEPT ![m] = Raised(m)]
  /\ UNCHANGED <<store, msgs, tasks, acked, published, sent, clock>>

\* (mutant) the message is deleted as soon as it is received.
AckOnReceipt(m) ==
  /\ proc[m].pc = FirstStep(msgs[m].kind)
  /\ ~acked[m]
  /\ acked' = [acked EXCEPT ![m] = TRUE]
  /\ UNCHANGED <<store, msgs, tasks, proc, published, sent, clock, faults>>

\* delete_successfully_processed_sqs: the last call of process_request_from.
Ack(m) ==
  /\ proc[m].pc = "delete_successfully_processed_sqs"
  /\ acked' = [acked EXCEPT ![m] = TRUE]
  /\ proc' = [proc EXCEPT ![m] = [IdleProc EXCEPT !.res = proc[m].res]]
  /\ UNCHANGED <<store, msgs, tasks, published, sent, clock, faults>>

\* Move invocation m to step pc with result res.
Goto(m, pc, res) == [proc EXCEPT ![m].pc = pc, ![m].res = res]


\* lambda_handler on a batch: `tasks = {}` and the loop not yet entered.
\* index is the position of the record in process_request_from (0 before the
\* loop, Len(records) + 1 after it), failed is tasks["failed"], result is
\* what the invocation ended with ("" while it runs).
Invocation(records) ==
  [records |-> records, index |-> 0, failed |-> 0, result |-> ""]

\* lambda_handler's loop: once process_request_from of the record at index
\* has ended, count it if it raised, and call process_request_from on the
\* next record, if any.
ForRecord(b) ==
  LET t == tasks[b] IN
  /\ t.result = ""
  /\ t.index <= Len(t.records)
  /\ t.index > 0 => proc[t.records[t.index]].pc = "idle"
  /\ tasks' = [tasks EXCEPT
                 ![b].index = @ + 1,
                 ![b].failed =
                   IF t.index > 0 /\ proc[t.records[t.index]].res = "Failed"
                     THEN @ + 1 ELSE @]
  /\ proc' = IF t.index < Len(t.records)
               THEN [proc EXCEPT ![t.records[t.index + 1]] =
                       [IdleProc EXCEPT
                          !.pc = FirstStep(msgs[t.records[t.index + 1]].kind)]]
               ELSE proc
  /\ UNCHANGED <<store, msgs, acked, published, sent, clock, faults>>

\* (mutant) the handler returns "Complete" whatever failed.
cleanup_all_complete(t) == "Complete"

\* cleanup_all: raise if tasks["failed"] is there and not 0.
cleanup_all(t) == IF t.failed # 0 THEN "Raised" ELSE "Complete"

\* lambda_handler's `return cleanup_all(tasks)`, after the loop.
CleanupAll(b) ==
  /\ tasks[b].result = ""
  /\ tasks[b].index = Len(tasks[b].records) + 1
  /\ tasks' = [tasks EXCEPT ![b].result = cleanup_all(tasks[b])]
  /\ UNCHANGED <<store, msgs, acked, proc, published, sent, clock, faults>>

\* The queue's trigger after an invocation that returned: the batch is
\* deleted from the queue.
DeleteBatch(b) ==
  /\ tasks[b].result = "Complete"
  /\ acked' = [m \in Ids |->
                acked[m] \/ \E i \in DOMAIN tasks[b].records :
                               tasks[b].records[i] = m]
  /\ tasks' = [tasks EXCEPT ![b].result = "Deleted"]
  /\ UNCHANGED <<store, msgs, proc, published, sent, clock, faults>>

Unacked(m) == ~acked[m]

\* The queue's trigger after an invocation that raised ("Forces SQS retry of
\* failed events"): the records not deleted go to a new invocation.
RetryBatch(b) ==
  /\ tasks[b].result = "Raised"
  /\ tasks' = [tasks EXCEPT
                 ![b] = Invocation(SelectSeq(tasks[b].records, Unacked))]
  /\ UNCHANGED <<store, msgs, acked, proc, published, sent, clock, faults>>


\* ------------------------------------------------- create_new_event_record
\* stage_request_from: the Event item of a request; every field goes through
\* str(), the created/dtstamp/last_modified instants come from the request.
stage_request_from(request) ==
  [mailto |-> request.mailto,
   status |-> "confirmed",
   method |-> "request",
   sequence |-> request.sequence,
   dtstamp |-> 0,
   last_modified |-> 0,
   invite_limit |-> EVENT_INVITE_LIMIT,
   summary |-> Str(request.content.summary),
   summary_html |-> Str(request.content.summary_html),
   location |-> Str(request.content.location),
   location_html |-> Str(request.content.location_html),
   dtend |-> request.content.dtend,
   dtstart |-> request.content.dtstart,
   description |-> Str(request.content.description),
   description_html |-> Str(request.content.description_html)]

\* get_original_event_record_from
get_original_event_record_from(request) ==
  [uid |-> request.uid, mailto |-> request.mailto]

\* (mutant) every organizer is authorized to send.
organizer_can_send_always(organizer_email) == TRUE

\* organizer_can_send, without events_available (which always returns True)
organizer_can_send(organizer_email) ==
  organizer_email # NoneVal /\ ~account_is_suspended(organizer_email)

\* events_available -> create_organizer_statistics_record: put the zeroed
\* organizer record unless it exists (the conditional check that fails is
\* swallowed).
create_organizer_statistics_record(organizer_email) ==
  IF organizer_statistics(organizer_email) \in DOMAIN stats
    THEN stats
    ELSE stats @@ (organizer_statistics(organizer_email) :> ZeroStatistics)

\* get_organizer_details, organizer_can_send, events_available.  The read of
\* the organizer's statistics and the conditional put act as one "put if
\* absent": statistics records are never deleted.
CreateOrganizer(m) ==
  /\ proc[m].pc = "get_organizer_details"
  /\ IF organizer_can_send(msgs[m].mailto)
       THEN /\ stats' = create_organizer_statistics_record(msgs[m].mailto)
            /\ proc' = Goto(m, "create_new_event_record", "")
       ELSE /\ stats' = stats
            /\ proc' = Goto(m, "delete_successfully_processed_sqs",
                            "Unauthorized")
  /\ UNCHANGED <<lookup, events, attendees, msgs, tasks, acked, published, sent,
                 clock, faults>>

\* (mutant) the lookup is put without its ConditionExpression.
create_condition_missing(request) == TRUE

\* The one condition of the create transaction: on the lookup item only.
create_condition(request) == request.original_uid \notin DOMAIN lookup

\* get_organizer_event_update_query: events = if_not_exists(events, 0) + 1
\* (the organizer record exists: CreateOrganizer ran in this invocation).
get_organizer_event_update_query(statistics, organizer_email) ==
  [statistics EXCEPT ![organizer_statistics(organizer_email)].events = @ + 1]

\* Put without a condition: the item is replaced if it exists.
Put(table, key, item) ==
  [k \in DOMAIN table \cup {key} |-> IF k = key THEN item ELSE table[k]]

\* create_new_event_record: transact_write_items of the lookup (if absent),
\* the Event, the event statistics and the organizer's events counter; a
\* TransactionCanceledException is taken as "the event already exists".
CreateTransaction(m) ==
  /\ proc[m].pc = "create_new_event_record"
  /\ IF create_condition(msgs[m])
       THEN /\ lookup' = Put(lookup, msgs[m].original_uid,
                             get_original_event_record_from(msgs[m]))
            /\ events' = Put(events, msgs[m].uid, stage_request_from(msgs[m]))
            /\ stats' = get_organizer_event_update_query(
                          Put(stats, event_statistics(msgs[m].uid),
                              ZeroStatistics),
                          msgs[m].mailto)
            /\ proc' = Goto(m, "send_notification_of_new_event", "Created")
       ELSE /\ UNCHANGED <<lookup, events, stats>>
            /\ proc' = Goto(m, "send_notification_of_updated_event",
                            "AlreadyExists")
  /\ UNCHANGED <<attendees, msgs, tasks, acked, published, sent, clock, faults>>

\* The transaction is cancelled for another reason (a conflict with a
\* concurrent transaction, throttling): the same exception, the same branch.
CreateTransactionCanceled(m) ==
  /\ proc[m].pc = "create_new_event_record"
  /\ faults < MaxFaults
  /\ faults' = faults + 1
  /\ proc' = Goto(m, "send_notification_of_updated_event", "AlreadyExists")
  /\ UNCHANGED <<store, msgs, tasks, acked, published, sent, clock>>

\* send_notification_of_new_event
CreateNotifyNew(m) ==
  /\ proc[m].pc = "send_notification_of_new_event"
  /\ published' = Add(published, <<"NEW_EVENT_CREATED", msgs[m].uid>>)
  /\ proc' = Goto(m, "delete_successfully_processed_sqs", proc[m].res)
  /\ UNCHANGED <<store, msgs, tasks, acked, sent, clock, faults>>

\* send_notification_of_updated_event: the request is routed to update.
CreateNotifyUpdated(m) ==
  /\ proc[m].pc = "send_notification_of_updated_event"
  /\ published' = Add(published, <<"EVENT_UPDATED", msgs[m].uid>>)
  /\ proc' = Goto(m, "delete_successfully_processed_sqs", proc[m].res)
  /\ UNCHANGED <<store, msgs, tasks, acked, sent, clock, faults>>

\* ----------------------------------------------------------- cancel_event_2
\* get_event_uid_from, get_event_from: original_event["uid"] and
\* event["status"] raise when the record read is missing.  The lookup never
\* changes once written, so the two reads act as one.  Of the event read the
\* invocation later uses its uid, status and sequence.
Resolves(original_uid) ==
  /\ original_uid \in DOMAIN lookup
  /\ lookup[original_uid].uid \in DOMAIN events

\* (mutant) the status of the event read is not looked at.
event_is_not_cancelled_unchecked(event) == TRUE

event_is_not_cancelled(event) == event.status # "cancelled"

CancelGetEvent(m) ==
  /\ proc[m].pc = "cancel_get_event"
  /\ IF ~Resolves(msgs[m].original_uid)
       THEN proc' = [proc EXCEPT ![m] = Raised(m)]
       ELSE LET uid == lookup[msgs[m].original_uid].uid IN
            IF event_is_not_cancelled(events[uid])
              THEN proc' = [proc EXCEPT ![m].pc = "cancel_event",
                                        ![m].uid = uid,
                                        ![m].status = events[uid].status,
                                        ![m].sequence = events[uid].sequence]
              ELSE proc' = [proc EXCEPT
                              ![m].pc = "delete_successfully_processed_sqs",
                              ![m].status = events[uid].status,
                              ![m].res = "AlreadyCancelled"]
  /\ UNCHANGED <<store, msgs, tasks, acked, published, sent, clock, faults>>

\* cancel_event: update_item on the Event's key, no condition; the sequence
\* written is the one read plus one.
cancel_event(event, read_sequence, timestamp) ==
  [event EXCEPT !.method = "cancel",
                !.status = "cancelled",
                !.dtstamp = timestamp,
                !.last_modified = timestamp,
                !.sequence = read_sequence + 1]

CancelEvent(m) ==
  /\ proc[m].pc = "cancel_event"
  /\ \E timestamp \in Now :
       /\ clock' = timestamp
       /\ events' = [events EXCEPT ![proc[m].uid] =
                       cancel_event(@, proc[m].sequence, timestamp)]
  /\ proc' = Goto(m, "send_notification_of_cancelled", "Cancelled")
  /\ UNCHANGED <<lookup, attendees, stats, msgs, tasks, acked, published, sent,
                 faults>>

\* send_notification_of_cancelled
CancelNotify(m) ==
  /\ proc[m].pc = "send_notification_of_cancelled"
  /\ published' = Add(published, <<"EVENT_CANCELLED", proc[m].uid>>)
  /\ proc' = Goto(m, "delete_successfully_processed_sqs", proc[m].res)
  /\ UNCHANGED <<store, msgs, tasks, acked, sent, clock, faults>>

\* ------------------------------------------------------------- update_event
\* (mutant) every request counts as a change.
event_updated_always(original_event, new_event) == TRUE

\* event_updated: some compared field of the stored event differs from the
\* request's.
event_updated(original_event, new_event) ==
  \E val \in update_fields : original_event[val] # new_event[val]

\* process_request_from of update_event: the delete of the message is inside
\* the "if event_updated" block, so an unchanged event ends the invocation
\* without deleting the message.
UpdateGetEvent(m) ==
  /\ proc[m].pc = "update_get_event"
  /\ IF ~Resolves(msgs[m].original_uid)
       THEN proc' = [proc EXCEPT ![m] = Raised(m)]
       ELSE LET uid == lookup[msgs[m].original_uid].uid IN
            IF event_updated(events[uid], msgs[m].content)
              THEN proc' = [proc EXCEPT ![m].pc = "update_event",
                                        ![m].uid = uid,
                                        ![m].status = events[uid].status,
                                        ![m].sequence = events[uid].sequence]
              ELSE proc' = [proc EXCEPT ![m] = [IdleProc EXCEPT !.res = "NoOp"]]
  /\ UNCHANGED <<store, msgs, tasks, acked, published, sent, clock, faults>>

\* (mutant) an update whose expression leaves the location fields out.
update_event_without_location(event, new_event, read_sequence, timestamp) ==
  [event EXCEPT !.summary = Str(new_event.summary),
                !.summary_html = Str(new_event.summary_html),
                !.dtend = new_event.dtend,
                !.dtstart = new_event.dtstart,
                !.description = Str(new_event.description),
                !.description_html = Str(new_event.description_html),
                !.dtstamp = timestamp,
                !.last_modified = timestamp,
                !.sequence = read_sequence + 1]

\* (mutant) an update that writes the whole item back with the invite_limit
\* of a new event.
update_event_with_invite_limit(event, new_event, read_sequence, timestamp) ==
  [event EXCEPT !.summary = Str(new_event.summary),
                !.summary_html = Str(new_event.summary_html),
                !.location = Str(new_event.location),
                !.location_html = Str(new_event.location_html),
                !.dtend = new_event.dtend,
                !.dtstart = new_event.dtstart,
                !.description = Str(new_event.description),
                !.description_html = Str(new_event.description_html),
                !.dtstamp = timestamp,
                !.last_modified = timestamp,
                !.sequence = read_sequence + 1,
                !.invite_limit = EVENT_INVITE_LIMIT]

\* update_event: update_item on the Event's key, no condition; the eight
\* fields come from the request (strings through str()), the sequence written
\* is the one read plus one.
update_event(event, new_event, read_sequence, timestamp) ==
  [event EXCEPT !.summary = Str(new_event.summary),
                !.summary_html = Str(new_event.summary_html),
                !.location = Str(new_event.location),
                !.location_html = Str(new_event.location_html),
                !.dtend = new_event.dtend,
                !.dtstart = new_event.dtstart,
                !.description = Str(new_event.description),
                !.description_html = Str(new_event.description_html),
                !.dtstamp = timestamp,
                !.last_modified = timestamp,
                !.sequence = read_sequence + 1]

UpdateEvent(m) ==
  /\ proc[m].pc = "update_event"
  /\ \E timestamp \in Now :
       /\ clock' = timestamp
       /\ events' = [events EXCEPT ![proc[m].uid] =
                       update_event(@, msgs[m].content, proc[m].sequence,
                                    timestamp)]
  /\ proc' = Goto(m, "send_notification_of_updated", "Updated")
  /\ UNCHANGED <<lookup, attendees, stats, msgs, tasks, acked, published, sent,
                 faults>>

\* send_notification_of_updated
UpdateNotify(m) ==
  /\ proc[m].pc = "send_notification_of_updated"
  /\ published' = Add(published, <<"EVENT_UPDATED", proc[m].uid>>)
  /\ proc' = Goto(m, "delete_successfully_processed_sqs", proc[m].res)
  /\ UNCHANGED <<store, msgs, tasks, acked, sent, clock, faults>>


\* -------------------------------------------------------- send_event_invite
\* The prodid written on an invited attendee's record.
InvitePRODID == "-//31events//calendarsnack//en"

\* if_not_exists(map.key, 0) + 1
Increment(map, key) ==
  [k \in DOMAIN map \cup {key} |->
     IF k = key THEN (IF key \in DOMAIN map THEN map[key] ELSE 0) + 1
                ELSE map[k]]

\* An update expression reading `#rsvp.#key` is rejected when the record or
\* the key is missing.
HasCounter(statistics, key, status) ==
  key \in DOMAIN statistics /\ status \in DOMAIN statistics[key].rsvp

\* (mutant) the system statistics item is left out of the transaction.
Scopes_without_system(uid, organizer) ==
  {event_statistics(uid), organizer_statistics(organizer)}

\* The three statistics items of one transaction.
Scopes(uid, organizer) ==
  {event_statistics(uid), organizer_statistics(organizer), system_statistics}

\* get_attendee_record_for
get_attendee_record_for(invite, organizer, timestamp) ==
  [attendee |-> invite.email,
   mailto |-> organizer,
   created |-> timestamp,
   name |-> "customer",
   status |-> invite.partstat,
   origin |-> invite.origin,
   prodid |-> InvitePRODID,
   history |-> << <<invite.partstat, timestamp, InvitePRODID>> >>]

\* get_statistics_record_update_for of send_event_invite, on one record.
invite_get_statistics_record_update_for(record, invite) ==
  [record EXCEPT !.attendees = @ + 1,
                 !.origin = Increment(@, invite.origin),
                 !.prodid = Increment(@, invite.prodid),
                 !.rsvp = [@ EXCEPT ![invite.partstat] = @ + 1]]

\* (mutant) the invite allowance is not charged.
get_event_invite_limit_unchanged(event) == event

\* get_event_invite_limit_record_update_for
get_event_invite_limit_record_update_for(event) ==
  [event EXCEPT !.invite_limit = @ - 1]

\* (mutant) the attendee's record is not looked up.
attendee_has_not_been_sent_unchecked(event_invite) == TRUE

\* attendee_has_not_been_sent
attendee_has_not_been_sent(event_invite) ==
  <<event_invite.uid, event_invite.email>> \notin DOMAIN attendees

InviteCheck(m) ==
  /\ proc[m].pc = "attendee_has_not_been_sent"
  /\ proc' =
       IF attendee_has_not_been_sent(msgs[m])
         THEN Goto(m, "create_record_of_attendee", "")
         ELSE IF msgs[m].origin = "test"
           THEN Goto(m, "send_invite_to_attendee", "TestSent")
           ELSE Goto(m, "delete_successfully_processed_sqs", "AlreadySent")
  /\ UNCHANGED <<store, msgs, tasks, acked, published, sent, clock, faults>>

\* (mutant) the transaction is the attendee's Put alone: nothing of it
\* touches the Event or a statistics record.
invite_commits_without_event(invite) ==
  <<invite.uid, invite.email>> \notin DOMAIN attendees

\* (mutant) the invited attendee's Put has no ConditionExpression.
invite_commits_unconditional(invite) ==
  /\ invite.uid \in DOMAIN events
  /\ \A key \in Scopes(invite.uid, invite.mailto) :
       HasCounter(stats, key, invite.partstat)

\* What the invite transaction needs to go through.
invite_commits(invite) ==
  /\ <<invite.uid, invite.email>> \notin DOMAIN attendees
  /\ invite.uid \in DOMAIN events
  /\ \A key \in Scopes(invite.uid, invite.mailto) :
       HasCounter(stats, key, invite.partstat)

\* create_record_of_attendee: transact_write_items of the attendee record (if
\* absent), the event's invite_limit and the three statistics records; any
\* ClientError is raised again.
CreateRecordOfAttendee(m) ==
  /\ proc[m].pc = "create_record_of_attendee"
  /\ IF invite_commits(msgs[m])
       THEN \E timestamp \in Now :
              /\ clock' = timestamp
              /\ attendees' = Put(attendees, <<msgs[m].uid, msgs[m].email>>,
                                  get_attendee_record_for(msgs[m],
                                    msgs[m].mailto, timestamp))
              /\ events' = [events EXCEPT ![msgs[m].uid] =
                              get_event_invite_limit_record_update_for(@)]
              /\ stats' = [key \in DOMAIN stats |->
                             IF key \in Scopes(msgs[m].uid, msgs[m].mailto)
                               THEN invite_get_statistics_record_update_for(
                                      stats[key], msgs[m])
                               ELSE stats[key]]
              /\ proc' = Goto(m, "send_invite_to_attendee", "Recorded")
       ELSE /\ UNCHANGED <<attendees, events, stats, clock>>
            /\ proc' = [proc EXCEPT ![m] = Raised(m)]
  /\ UNCHANGED <<lookup, msgs, tasks, acked, published, sent, faults>>

\* send_invite_to_attendee
SendInvite(m) ==
  /\ proc[m].pc = "send_invite_to_attendee"
  /\ sent' = Add(sent, <<msgs[m].uid, msgs[m].email>>)
  /\ proc' = Goto(m, "delete_successfully_processed_sqs", proc[m].res)
  /\ UNCHANGED <<store, msgs, tasks, acked, published, clock, faults>>

\* --------------------------------------------- update_event_attendee_record
\* (mutant) a reply is submitted without comparing it to the stored status.
update_event_attendee_record_with_unchecked(record_exists, status, event_reply) ==
  IF record_exists THEN "updated" ELSE "shared"

\* update_event_attendee_record_with: the branch taken for the record read
\* ("" when there is none): a changed status is submitted, an equal one is
\* logged as already processed, no record makes a shared attendee.
update_event_attendee_record_with(record_exists, status, event_reply) ==
  IF record_exists
    THEN IF status # event_reply.partstat THEN "updated" ELSE "duplicate"
    ELSE "shared"

\* get_current_attendee_record_for, then the branch.
GetCurrentAttendeeRecord(m) ==
  /\ proc[m].pc = "get_current_attendee_record_for"
  /\ LET key == <<msgs[m].uid, msgs[m].email>>
         exists == key \in DOMAIN attendees
         status == IF exists THEN attendees[key].status ELSE ""
         branch == update_event_attendee_record_with(exists, status, msgs[m])
     IN
     proc' =
       CASE branch = "updated" ->
              [proc EXCEPT ![m].pc = "updated_get_organizer_for",
                           ![m].previous_status = status]
         [] branch = "duplicate" ->
              Goto(m, "delete_successfully_processed_sqs", "Duplicate")
         [] branch = "shared" ->
              Goto(m, "shared_get_organizer_for", "")
  /\ UNCHANGED <<store, msgs, tasks, acked, published, sent, clock, faults>>

\* get_organizer_for: the Event's mailto; raises when there is no Event.
GetOrganizerFor(m) ==
  /\ proc[m].pc \in {"updated_get_organizer_for", "shared_get_organizer_for"}
  /\ proc' =
       IF msgs[m].uid \notin DOMAIN events
         THEN [proc EXCEPT ![m] = Raised(m)]
         ELSE [proc EXCEPT
                 ![m].pc = IF proc[m].pc = "updated_get_organizer_for"
                             THEN "submit_updated_event_attend_record_for"
                             ELSE "submit_shared_event_attend_record_for",
                 ![m].organizer = events[msgs[m].uid].mailto]
  /\ UNCHANGED <<store, msgs, tasks, acked, published, sent, clock, faults>>

\* (mutant) the reply replaces the history by its own entry.
get_attendee_update_record_replacing_history(record, event_reply, timestamp) ==
  [record EXCEPT !.created = timestamp,
                 !.prodid = event_reply.prodid,
                 !.status = event_reply.partstat,
                 !.history = << <<event_reply.partstat, timestamp,
                                  event_reply.prodid>> >>]

\* (mutant) the reply sets the status without appending to the history.
get_attendee_update_record_without_history(record, event_reply, timestamp) ==
  [record EXCEPT !.created = timestamp,
                 !.prodid = event_reply.prodid,
                 !.status = event_reply.partstat]

\* get_attendee_update_record_for: SET created, prodid, status and append to
\* history.
get_attendee_update_record_for(record, event_reply, timestamp) ==
  [record EXCEPT !.created = timestamp,
                 !.prodid = event_reply.prodid,
                 !.status = event_reply.partstat,
                 !.history = Append(@, <<event_reply.partstat, timestamp,
                                         event_reply.prodid>>)]

\* get_shared_attendee_record_for
get_shared_attendee_record_for(event_reply, organizer, timestamp) ==
  [attendee |-> event_reply.email,
   mailto |-> organizer,
   created |-> timestamp,
   name |-> "customer",
   status |-> event_reply.partstat,
   origin |-> "shared",
   prodid |-> event_reply.prodid,
   history |-> << <<event_reply.partstat, timestamp, event_reply.prodid>> >>]

\* (mutant) the previous status is not counted down.
reply_statistics_without_decrement(record, event_reply, previous_status, shared) ==
  IF ~shared
    THEN [record EXCEPT !.rsvp = [@ EXCEPT ![event_reply.partstat] = @ + 1]]
    ELSE [record EXCEPT !.rsvp = [@ EXCEPT ![event_reply.partstat] = @ + 1],
                        !.attendees = @ + 1,
                        !.origin = Increment(@, "shared"),
                        !.prodid = Increment(@, event_reply.prodid)]

\* (mutant) a shared attendee is not counted under its origin.
reply_statistics_without_origin(record, event_reply, previous_status, shared) ==
  IF ~shared
    THEN [record EXCEPT !.rsvp = [@ EXCEPT ![event_reply.partstat] = @ + 1,
                                           ![previous_status] = @ - 1]]
    ELSE [record EXCEPT !.rsvp = [@ EXCEPT ![event_reply.partstat] = @ + 1],
                        !.attendees = @ + 1,
                        !.prodid = Increment(@, event_reply.prodid)]

\* get_statistics_record_update_for of update_event_attendee_record, on one
\* record: the reply's status up by one, and either the previous status down
\* by one or (shared) the counters of a new attendee up by one.
reply_get_statistics_record_update_for(record, event_reply, previous_status, shared) ==
  IF ~shared
    THEN [record EXCEPT !.rsvp = [@ EXCEPT ![event_reply.partstat] = @ + 1,
                                           ![previous_status] = @ - 1]]
    ELSE [record EXCEPT !.rsvp = [@ EXCEPT ![event_reply.partstat] = @ + 1],
                        !.attendees = @ + 1,
                        !.origin = Increment(@, "shared"),
                        !.prodid = Increment(@, event_reply.prodid)]

\* What the transaction of an RSVP on an existing record needs.
updated_commits(event_reply, organizer, previous_status) ==
  /\ <<event_reply.uid, event_reply.email>> \in DOMAIN attendees
  /\ \A key \in Scopes(event_reply.uid, organizer) :
       /\ HasCounter(stats, key, event_reply.partstat)
       /\ HasCounter(stats, key, previous_status)

\* submit_updated_event_attend_record_for
SubmitUpdated(m) ==
  /\ proc[m].pc = "submit_updated_event_attend_record_for"
  /\ IF updated_commits(msgs[m], proc[m].organizer, proc[m].previous_status)
       THEN \E timestamp \in Now :
              /\ clock' = timestamp
              /\ attendees' = [attendees EXCEPT
                                 ![<<msgs[m].uid, msgs[m].email>>] =
                                   get_attendee_update_record_for(
                                     @, msgs[m], timestamp)]
              /\ stats' = [key \in DOMAIN stats |->
                             IF key \in Scopes(msgs[m].uid, proc[m].organizer)
                               THEN reply_get_statistics_record_update_for(
                                      stats[key], msgs[m],
                                      proc[m].previous_status, FALSE)
                               ELSE stats[key]]
              /\ proc' = Goto(m, "delete_successfully_processed_sqs",
                              "Updated")
       ELSE /\ UNCHANGED <<attendees, stats, clock>>
            /\ proc' = [proc EXCEPT ![m] = Raised(m)]
  /\ UNCHANGED <<lookup, events, msgs, tasks, acked, published, sent, faults>>

\* (mutant) the shared attendee's Put has no ConditionExpression.
shared_commits_unconditional(event_reply, organizer) ==
  \A key \in Scopes(event_reply.uid, organizer) :
    HasCounter(stats, key, event_reply.partstat)

\* What the transaction of an RSVP without a record needs.
shared_commits(event_reply, organizer) ==
  /\ <<event_reply.uid, event_reply.email>> \notin DOMAIN attendees
  /\ \A key \in Scopes(event_reply.uid, organizer) :
       HasCounter(stats, key, event_reply.partstat)

\* submit_shared_event_attend_record_for
SubmitShared(m) ==
  /\ proc[m].pc = "submit_shared_event_attend_record_for"
  /\ IF shared_commits(msgs[m], proc[m].organizer)
       THEN \E timestamp \in Now :
              /\ clock' = timestamp
              /\ attendees' = Put(attendees, <<msgs[m].uid, msgs[m].email>>,
                                  get_shared_attendee_record_for(
                                    msgs[m], proc[m].organizer, timestamp))
              /\ stats' = [key \in DOMAIN stats |->
                             IF key \in Scopes(msgs[m].uid, proc[m].organizer)
                               THEN reply_get_statistics_record_update_for(
                                      stats[key], msgs[m], "", TRUE)
                               ELSE stats[key]]
              /\ proc' = Goto(m, "delete_successfully_processed_sqs",
                              "SharedCreated")
       ELSE /\ UNCHANGED <<attendees, stats, clock>>
            /\ proc' = [proc EXCEPT ![m] = Raised(m)]
  /\ UNCHANGED <<lookup, events, msgs, tasks, acked, published, sent, faults>>


\* ---------------------------------------------------------- specifications
Organizer == "a@x.com"
OtherOrganizer == "c@x.com"
Attendee == "b@y.com"

\* Event lifecycle: one event, two updates and a cancel, all concurrent.
EventWorkload ==
  << CreateMsg("X", "E1", Organizer, ContentA),
     UpdateMsg("X", ContentB),
     UpdateMsg("X", ContentC),
     CancelMsg("X") >>

InitEvent == InitWith(EventWorkload)

NextEvent ==
  \/ \E m \in Ids : Deliver(m)
  \/ \E m \in Ids : Fail(m)
  \/ \E m \in Ids : Ack(m)
  \/ \E m \in Ids : CreateOrganizer(m)
  \/ \E m \in Ids : CreateTransaction(m)
  \/ \E m \in Ids : CreateTransactionCanceled(m)
  \/ \E m \in Ids : CreateNotifyNew(m)
  \/ \E m \in Ids : CreateNotifyUpdated(m)
  \/ \E m \in Ids : UpdateGetEvent(m)
  \/ \E m \in Ids : UpdateEvent(m)
  \/ \E m \in Ids : UpdateNotify(m)
  \/ \E m \in Ids : CancelGetEvent(m)
  \/ \E m \in Ids : CancelEvent(m)
  \/ \E m \in Ids : CancelNotify(m)

SpecEvent == InitEvent /\ [][NextEvent]_vars

\* Two cancels of one event (two senders, or a duplicate) and an update.
CancelWorkload ==
  << CreateMsg("X", "E1", Organizer, ContentA),
     CancelMsg("X"),
     CancelMsg("X"),
     UpdateMsg("X", ContentB) >>

InitCancel == InitWith(CancelWorkload)

SpecCancel == InitCancel /\ [][NextEvent]_vars


\* Creation: the same request delivered twice (messages 1 and 2), a second
\* request for the same original_uid from another email (its own uid, another
\* organizer), and an invite for the first request's event.
CreateWorkload ==
  << CreateMsg("X", "E1", Organizer, ContentA),
     CreateMsg("X", "E1", Organizer, ContentA),
     CreateMsg("X", "E2", OtherOrganizer, ContentB),
     InviteMsg("E1", Organizer, Attendee, "bulk", "31events//ses",
               "noaction") >>

InitCreate == InitWith(CreateWorkload)

NextCreate ==
  \/ \E m \in Ids : Deliver(m)
  \/ \E m \in Ids : Fail(m)
  \/ \E m \in Ids : Ack(m)
  \/ \E m \in Ids : CreateOrganizer(m)
  \/ \E m \in Ids : CreateTransaction(m)
  \/ \E m \in Ids : CreateTransactionCanceled(m)
  \/ \E m \in Ids : CreateNotifyNew(m)
  \/ \E m \in Ids : CreateNotifyUpdated(m)
  \/ \E m \in Ids : InviteCheck(m)
  \/ \E m \in Ids : CreateRecordOfAttendee(m)
  \/ \E m \in Ids : SendInvite(m)

SpecCreate == InitCreate /\ [][NextCreate]_vars

\* Attendee ledger: an invite and two replies of one attendee, concurrent
\* with each other and with the creation of their event.
LedgerWorkload ==
  << CreateMsg("X", "E1", Organizer, ContentA),
     InviteMsg("E1", Organizer, Attendee, "bulk", "31events//ses",
               "noaction"),
     RsvpMsg("E1", Attendee, "accepted", "p1"),
     RsvpMsg("E1", Attendee, "declined", "p2") >>

InitLedger == InitWith(LedgerWorkload)

NextLedger ==
  \/ \E m \in Ids : Deliver(m)
  \/ \E m \in Ids : Fail(m)
  \/ \E m \in Ids : Ack(m)
  \/ \E m \in Ids : CreateOrganizer(m)
  \/ \E m \in Ids : CreateTransaction(m)
  \/ \E m \in Ids : CreateTransactionCanceled(m)
  \/ \E m \in Ids : CreateNotifyNew(m)
  \/ \E m \in Ids : CreateNotifyUpdated(m)
  \/ \E m \in Ids : InviteCheck(m)
  \/ \E m \in Ids : CreateRecordOfAttendee(m)
  \/ \E m \in Ids : SendInvite(m)
  \/ \E m \in Ids : GetCurrentAttendeeRecord(m)
  \/ \E m \in Ids : GetOrganizerFor(m)
  \/ \E m \in Ids : SubmitUpdated(m)
  \/ \E m \in Ids : SubmitShared(m)

SpecLedger == InitLedger /\ [][NextLedger]_vars

\* End to end: create, invite, reply, cancel, each delivered once the one
\* before it was acknowledged; a failed invocation is delivered again.
E2EWorkload ==
  << [CreateMsg("X", "E1", Organizer, ContentA) EXCEPT !.sequence = 2],
     InviteMsg("E1", Organizer, Attendee, "bulk", "p1", "noaction"),
     RsvpMsg("E1", Attendee, "accepted", "p1"),
     CancelMsg("X") >>

\* The sequence the end-to-end event is created with.
E2ECreationSequence == E2EWorkload[1].sequence

InitE2E == InitWith(E2EWorkload)

DeliverInOrder(m) == (\A earlier \in 1 .. m - 1 : acked[earlier]) /\ Deliver(m)

NextE2E ==
  \/ \E m \in Ids : DeliverInOrder(m)
  \/ \E m \in Ids : Fail(m)
  \/ \E m \in Ids : Ack(m)
  \/ \E m \in Ids : CreateOrganizer(m)
  \/ \E m \in Ids : CreateTransaction(m)
  \/ \E m \in Ids : CreateNotifyNew(m)
  \/ \E m \in Ids : CreateNotifyUpdated(m)
  \/ \E m \in Ids : InviteCheck(m)
  \/ \E m \in Ids : CreateRecordOfAttendee(m)
  \/ \E m \in Ids : SendInvite(m)
  \/ \E m \in Ids : GetCurrentAttendeeRecord(m)
  \/ \E m \in Ids : GetOrganizerFor(m)
  \/ \E m \in Ids : SubmitUpdated(m)
  \/ \E m \in Ids : CancelGetEvent(m)
  \/ \E m \in Ids : CancelEvent(m)
  \/ \E m \in Ids : CancelNotify(m)

SpecE2E == InitE2E /\ [][NextE2E]_vars

\* The state right after the first message of `workload`, a new-event
\* request, was processed on the deployed table (CreateOrganizer,
\* CreateTransaction, CreateNotifyNew, Ack) and before any other delivery.
Created(workload) ==
  /\ lookup = (workload[1].original_uid
                :> get_original_event_record_from(workload[1]))
  /\ events = (workload[1].uid :> stage_request_from(workload[1]))
  /\ attendees = <<>>
  /\ stats = (system_statistics :> ZeroStatistics)
               @@ (organizer_statistics(workload[1].mailto)
                     :> [ZeroStatistics EXCEPT !.events = 1])
               @@ (event_statistics(workload[1].uid) :> ZeroStatistics)
  /\ msgs = workload
  /\ acked = [m \in DOMAIN workload |-> m = 1]
  /\ proc = [m \in DOMAIN workload |->
               IF m = 1 THEN [IdleProc EXCEPT !.res = "Created"] ELSE IdleProc]
  /\ published = (<<"NEW_EVENT_CREATED", workload[1].uid>> :> 1)
  /\ sent = [k \in {} |-> 0]
  /\ clock = 0
  /\ faults = 0

\* ... with every message delivered on its own.
InitCreated(workload) == Created(workload) /\ tasks = <<>>

OtherAttendee == "d@z.com"

\* Attendees of an event that exists: two invites of one attendee (the
\* address is twice on the list), a reply of that attendee, and a reply of
\* somebody who was never invited; all concurrent.
AttendeeWorkload ==
  << CreateMsg("X", "E1", Organizer, ContentA),
     InviteMsg("E1", Organizer, Attendee, "bulk", "31events//ses",
               "noaction"),
     InviteMsg("E1", Organizer, Attendee, "bulk", "31events//ses",
               "noaction"),
     RsvpMsg("E1", Attendee, "accepted", "p1"),
     RsvpMsg("E1", OtherAttendee, "declined", "p2") >>

InitAttendee == InitCreated(AttendeeWorkload)

NextAttendee ==
  \/ \E m \in Ids : Deliver(m)
  \/ \E m \in Ids : Fail(m)
  \/ \E m \in Ids : Ack(m)
  \/ \E m \in Ids : InviteCheck(m)
  \/ \E m \in Ids : CreateRecordOfAttendee(m)
  \/ \E m \in Ids : SendInvite(m)
  \/ \E m \in Ids : GetCurrentAttendeeRecord(m)
  \/ \E m \in Ids : GetOrganizerFor(m)
  \/ \E m \in Ids : SubmitUpdated(m)
  \/ \E m \in Ids : SubmitShared(m)

SpecAttendee == InitAttendee /\ [][NextAttendee]_vars

\* The handlers that work on an event that exists: an update, a cancel, an
\* invite and a reply, each message delivered on its own, all concurrent.
HandlersWorkload ==
  << CreateMsg("X", "E1", Organizer, ContentB),
     UpdateMsg("X", ContentC),
     CancelMsg("X"),
     InviteMsg("E1", Organizer, Attendee, "bulk", "31events//ses",
               "noaction"),
     RsvpMsg("E1", Attendee, "accepted", "p1") >>

InitHandlers == InitCreated(HandlersWorkload)

NextHandlers ==
  \/ \E m \in Ids : Deliver(m)
  \/ \E m \in Ids : Fail(m)
  \/ \E m \in Ids : Ack(m)
  \/ \E m \in Ids : UpdateGetEvent(m)
  \/ \E m \in Ids : UpdateEvent(m)
  \/ \E m \in Ids : UpdateNotify(m)
  \/ \E m \in Ids : CancelGetEvent(m)
  \/ \E m \in Ids : CancelEvent(m)
  \/ \E m \in Ids : CancelNotify(m)
  \/ \E m \in Ids : InviteCheck(m)
  \/ \E m \in Ids : CreateRecordOfAttendee(m)
  \/ \E m \in Ids : SendInvite(m)
  \/ \E m \in Ids : GetCurrentAttendeeRecord(m)
  \/ \E m \in Ids : GetOrganizerFor(m)
  \/ \E m \in Ids : SubmitUpdated(m)
  \/ \E m \in Ids : SubmitShared(m)

SpecHandlers == InitHandlers /\ [][NextHandlers]_vars

\* Batches: the update handler gets the same change twice, the cancel
\* handler gets a cancel of an unknown event followed by two cancels of the
\* event that exists.  The two handlers run concurrently.
BatchWorkload ==
  << CreateMsg("X", "E1", Organizer, ContentB),
     UpdateMsg("X", ContentC),
     UpdateMsg("X", ContentC),
     CancelMsg("Y"),
     CancelMsg("X"),
     CancelMsg("X") >>

Batches == << Invocation(<<2, 3>>), Invocation(<<4, 5, 6>>) >>

InitBatch == Created(BatchWorkload) /\ tasks = Batches

NextBatch ==
  \/ \E b \in DOMAIN tasks : ForRecord(b)
  \/ \E b \in DOMAIN tasks : CleanupAll(b)
  \/ \E b \in DOMAIN tasks : DeleteBatch(b)
  \/ \E b \in DOMAIN tasks : RetryBatch(b)
  \/ \E m \in Ids : Fail(m)
  \/ \E m \in Ids : Ack(m)
  \/ \E m \in Ids : UpdateGetEvent(m)
  \/ \E m \in Ids : UpdateEvent(m)
  \/ \E m \in Ids : UpdateNotify(m)
  \/ \E m \in Ids : CancelGetEvent(m)
  \/ \E m \in Ids : CancelEvent(m)
  \/ \E m \in Ids : CancelNotify(m)

SpecBatch == InitBatch /\ [][NextBatch]_vars

\* An event that exists, a bulk invite and two test invites for it (one for
\* the attendee of the bulk invite, one for somebody else), and a new-event
\* request with another original_uid and the uid of the event that exists;
\* all concurrent.
SameUidWorkload ==
  << CreateMsg("X", "E1", Organizer, ContentA),
     InviteMsg("E1", Organizer, Attendee, "bulk", "31events//ses",
               "noaction"),
     InviteMsg("E1", Organizer, Attendee, "test", "31events//ses",
               "noaction"),
     InviteMsg("E1", Organizer, OtherAttendee, "test", "31events//ses",
               "noaction"),
     CreateMsg("Y", "E1", Organizer, ContentB) >>

InitSameUid == InitCreated(SameUidWorkload)

SpecSameUid == InitSameUid /\ [][NextCreate]_vars

\* Invites for two attendees of an event that exists, with an update and a
\* cancel of that event; all concurrent.
CountersWorkload ==
  << CreateMsg("X", "E1", Organizer, ContentB),
     InviteMsg("E1", Organizer, Attendee, "bulk", "31events//ses",
               "noaction"),
     InviteMsg("E1", Organizer, OtherAttendee, "bulk", "31events//ses",
               "noaction"),
     UpdateMsg("X", ContentC),
     CancelMsg("X") >>

InitCounters == InitCreated(CountersWorkload)

NextCounters ==
  \/ \E m \in Ids : Deliver(m)
  \/ \E m \in Ids : Fail(m)
  \/ \E m \in Ids : Ack(m)
  \/ \E m \in Ids : UpdateGetEvent(m)
  \/ \E m \in Ids : UpdateEvent(m)
  \/ \E m \in Ids : UpdateNotify(m)
  \/ \E m \in Ids : CancelGetEvent(m)
  \/ \E m \in Ids : CancelEvent(m)
  \/ \E m \in Ids : CancelNotify(m)
  \/ \E m \in Ids : InviteCheck(m)
  \/ \E m \in Ids : CreateRecordOfAttendee(m)
  \/ \E m \in Ids : SendInvite(m)

SpecCounters == InitCounters /\ [][NextCounters]_vars

\* Replies that carry a participation status the statistics records were
\* not created with (PARTSTAT=DELEGATED, lower-cased by the reply parser): one
\* from an invited attendee, one from somebody without a record; with an
\* invite and a reply of a status the records were created with.
FirstUseWorkload ==
  << CreateMsg("X", "E1", Organizer, ContentA),
     InviteMsg("E1", Organizer, Attendee, "bulk", "31events//ses",
               "noaction"),
     RsvpMsg("E1", Attendee, "delegated", "p1"),
     RsvpMsg("E1", OtherAttendee, "delegated", "p2"),
     RsvpMsg("E1", Attendee, "accepted", "p1") >>

InitFirstUse == InitCreated(FirstUseWorkload)

SpecFirstUse == InitFirstUse /\ [][NextAttendee]_vars

\* Batches with a message whose original_uid has no lookup: an update for
\* "Y" on a batch of its own, a cancel for "Y" at the head of a batch that
\* also carries a cancel of the event that exists, and an update of that
\* event on a third batch.
UnresolvedWorkload ==
  << CreateMsg("X", "E1", Organizer, ContentB),
     UpdateMsg("Y", ContentC),
     CancelMsg("Y"),
     CancelMsg("X"),
     UpdateMsg("X", ContentC) >>

UnresolvedBatches ==
  << Invocation(<<2>>), Invocation(<<3, 4>>), Invocation(<<5>>) >>

InitUnresolved == Created(UnresolvedWorkload) /\ tasks = UnresolvedBatches

SpecUnresolved == InitUnresolved /\ [][NextBatch]_vars

\* An invite and a reply for a uid that has no Event ("E9"), with an invite
\* and a reply for the event that exists.
NoEventWorkload ==
  << CreateMsg("X", "E1", Organizer, ContentA),
     InviteMsg("E9", Organizer, Attendee, "bulk", "31events//ses",
               "noaction"),
     RsvpMsg("E9", Attendee, "accepted", "p1"),
     InviteMsg("E1", Organizer, Attendee, "bulk", "31events//ses",
               "noaction"),
     RsvpMsg("E1", Attendee, "accepted", "p1") >>

InitNoEvent == InitCreated(NoEventWorkload)

SpecNoEvent == InitNoEvent /\ [][NextAttendee]_vars

\* New-event requests of an organizer whose account is suspended and of one
\* without an email (mailto missing), with a request of an organizer who can
\* send and an invite for that one's event; an empty table to start with.
SuspendedOrganizer == "suspended@x.com"

UnauthorizedWorkload ==
  << CreateMsg("X", "E1", SuspendedOrganizer, ContentA),
     CreateMsg("Y", "E2", NoneVal, ContentA),
     CreateMsg("Z", "E3", Organizer, ContentB),
     InviteMsg("E3", Organizer, Attendee, "bulk", "31events//ses",
               "noaction") >>

InitUnauthorized == InitWith(UnauthorizedWorkload)

SpecUnauthorized == InitUnauthorized /\ [][NextCreate]_vars

\* ------------------------------------------------------------------ claims
\* Invocation m takes a step.
StepOf(m) == proc'[m] # proc[m]

\* The Event a message's original_uid resolves to.
EventOf(m) == lookup[msgs[m].original_uid].uid

\* C3: a cancel invocation that reads an Event already cancelled (the second
\* of two cancels in sequence) ends as AlreadyCancelled and none of its steps
\* writes the Event (sequence, status and last_modified stay as the first
\* cancel left them) or publishes; only an invocation that read the Event as
\* not cancelled writes it (status cancelled), and only such a one publishes.
C3_IdempotentCancel ==
  [][\A m \in Ids :
       /\ ( /\ proc[m].pc = "cancel_get_event"
            /\ StepOf(m)
            /\ proc'[m].res # "Failed"
            /\ Resolves(msgs[m].original_uid)
            /\ events[EventOf(m)].status = "cancelled" )
          => /\ proc'[m].res = "AlreadyCancelled"
             /\ proc'[m].pc = "delete_successfully_processed_sqs"
       /\ (StepOf(m) /\ "AlreadyCancelled" \in {proc[m].res, proc'[m].res})
          => UNCHANGED <<events, published>>
       /\ (StepOf(m) /\ proc'[m].res = "Cancelled" /\ proc[m].res # "Cancelled")
          => /\ proc[m].status # "cancelled"
             /\ events'[proc[m].uid].status = "cancelled"
       /\ Count(published', <<"EVENT_CANCELLED", "E1">>)
            > Count(published, <<"EVENT_CANCELLED", "E1">>)
          /\ StepOf(m)
          => proc[m].res = "Cancelled"
  ]_vars

\* C3 witness: a cancel was acknowledged as AlreadyCancelled after an earlier
\* invocation cancelled the event.
C3_Witness ==
  \E m \in Ids :
    /\ msgs[m].kind = "cancel"
    /\ acked[m]
    /\ proc[m].res = "AlreadyCancelled"
    /\ events["E1"].status = "cancelled"

\* C4: an update whose eight fields all equal the stored Event's writes
\* nothing (sequence, dtstamp, last_modified and all else unchanged),
\* publishes nothing and ends as NoOp.
C4_NoOpUpdate ==
  [][\A m \in Ids :
       ( /\ proc[m].pc = "update_get_event"
         /\ StepOf(m)
         /\ proc'[m].res # "Failed"
         /\ Resolves(msgs[m].original_uid)
         /\ events[EventOf(m)].summary = msgs[m].content.summary
         /\ events[EventOf(m)].summary_html = msgs[m].content.summary_html
         /\ events[EventOf(m)].location = msgs[m].content.location
         /\ events[EventOf(m)].location_html = msgs[m].content.location_html
         /\ events[EventOf(m)].dtend = msgs[m].content.dtend
         /\ events[EventOf(m)].dtstart = msgs[m].content.dtstart
         /\ events[EventOf(m)].description = msgs[m].content.description
         /\ events[EventOf(m)].description_html
              = msgs[m].content.description_html )
       => /\ proc'[m].pc = "idle"
          /\ proc'[m].res = "NoOp"
          /\ UNCHANGED <<store, published>>
  ]_vars

\* C4 witness: an update invocation ended as NoOp on an Event that an earlier
\* update had written.
C4_Witness ==
  \E m \in Ids :
    /\ msgs[m].kind = "update"
    /\ proc[m].res = "NoOp"
    /\ "E1" \in DOMAIN events
    /\ events["E1"].sequence > 0

\* C8 (as claimed): the stored sequence of an Event never decreases from one
\* state to the next.
C8_SequenceNeverDecreases ==
  [][\A uid \in DOMAIN events :
       uid \in DOMAIN events' => events'[uid].sequence >= events[uid].sequence
  ]_vars

\* C9 (as claimed): an invocation that starts after the Event was cancelled
\* (it read the Event as cancelled) changes no field of any Event.
C9_CancelledIsFrozen ==
  [][\A m \in Ids :
       (StepOf(m) /\ proc[m].status = "cancelled") => events' = events
  ]_vars

\* C10 (as claimed): every committed update or cancel leaves the stored
\* sequence exactly one above its value before the commit (so N commits leave
\* it N above the creation value).
C10_SequenceCountsCommits ==
  [][\A m \in Ids :
       ( /\ proc[m].pc \in {"update_event", "cancel_event"}
         /\ StepOf(m)
         /\ proc'[m].res \in {"Updated", "Cancelled"} )
       => events'[proc[m].uid].sequence = events[proc[m].uid].sequence + 1
  ]_vars


\* The events counter of an organizer (0 without a statistics record).
EventsSent(organizer_email) ==
  IF organizer_statistics(organizer_email) \in DOMAIN stats
    THEN stats[organizer_statistics(organizer_email)].events
    ELSE 0

\* C2: for requests with one original_uid there is at most one
\* OriginalEventLookup and one Event (the one the lookup names), and the
\* organizers' events counters went up once, for that Event's organizer.
\* Every step of a create invocation made while the lookup exists (a second
\* call, a redelivery) leaves the lookup, the Events, the attendees and every
\* existing statistics record as they were, and its transaction step takes the
\* AlreadyExists branch.
C2_IdempotentCreate ==
  /\ [](/\ Cardinality(DOMAIN lookup) <= 1
        /\ Cardinality(DOMAIN events) <= 1
        /\ \A original_uid \in DOMAIN lookup :
             DOMAIN events = {lookup[original_uid].uid}
        /\ DOMAIN events # {} => DOMAIN lookup # {}
        /\ EventsSent(Organizer) + EventsSent(OtherOrganizer)
             = Cardinality(DOMAIN events)
        /\ \A uid \in DOMAIN events : EventsSent(events[uid].mailto) = 1)
  /\ [][\A m \in Ids :
          ( /\ msgs[m].kind = "create"
            /\ StepOf(m)
            /\ msgs[m].original_uid \in DOMAIN lookup )
          => /\ UNCHANGED <<lookup, events, attendees>>
             /\ \A key \in DOMAIN stats : stats'[key] = stats[key]
             /\ ( proc[m].pc = "create_new_event_record"
                  /\ proc'[m].res # "Failed" )
                => proc'[m].res = "AlreadyExists"
     ]_vars

\* C2 witness: the request was processed twice, the second time as
\* AlreadyExists, after an invite had been recorded on the event.
C2_Witness ==
  /\ acked[1] /\ acked[2]
  /\ {proc[1].res, proc[2].res} = {"Created", "AlreadyExists"}
  /\ "E1" \in DOMAIN events
  /\ events["E1"].invite_limit = EVENT_INVITE_LIMIT - 1
  /\ stats[event_statistics("E1")].attendees = 1
  /\ stats[organizer_statistics(Organizer)].events = 1


\* The sum of the four rsvp counters of a statistics record.
RsvpSum(record) ==
  record.rsvp["accepted"] + record.rsvp["declined"]
    + record.rsvp["tentative"] + record.rsvp["noaction"]

\* C1: in every reachable state every statistics record (event, organizer,
\* system) has rsvp[accepted] + rsvp[declined] + rsvp[tentative] +
\* rsvp[noaction] = attendees.
C1_StatisticsBalance ==
  \A key \in DOMAIN stats : RsvpSum(stats[key]) = stats[key].attendees

\* C1 witness: an invite and a status change have both been committed.
C1_Witness ==
  /\ <<"E1", Attendee>> \in DOMAIN attendees
  /\ Len(attendees[<<"E1", Attendee>>].history) = 2
  /\ attendees[<<"E1", Attendee>>].origin = "bulk"
  /\ \A key \in DOMAIN stats : stats[key].attendees = 1

\* The attendee record a reply is about.
ReplyKey(m) == <<msgs[m].uid, msgs[m].email>>

\* C5: when a reply with status n commits on a record whose status p # n is
\* the one the invocation read, then in the event, organizer and system
\* records rsvp[p] goes down by 1, rsvp[n] up by 1, and the other rsvp
\* counters, attendees, origin and prodid stay as they were.
C5_RsvpTransition ==
  [][\A m \in Ids :
       ( /\ proc[m].pc = "submit_updated_event_attend_record_for"
         /\ StepOf(m)
         /\ proc'[m].res = "Updated"
         /\ attendees[ReplyKey(m)].status = proc[m].previous_status
         /\ attendees[ReplyKey(m)].status # msgs[m].partstat )
       => LET p == attendees[ReplyKey(m)].status
              n == msgs[m].partstat
          IN \A key \in {event_statistics(msgs[m].uid),
                         organizer_statistics(events[msgs[m].uid].mailto),
                         system_statistics} :
               /\ stats'[key].rsvp[p] = stats[key].rsvp[p] - 1
               /\ stats'[key].rsvp[n] = stats[key].rsvp[n] + 1
               /\ \A s \in Statuses \ {p, n} :
                    stats'[key].rsvp[s] = stats[key].rsvp[s]
               /\ stats'[key].attendees = stats[key].attendees
               /\ stats'[key].origin = stats[key].origin
               /\ stats'[key].prodid = stats[key].prodid
  ]_vars

\* C5 witness: a reply changed the status of an invited attendee and was
\* acknowledged as Updated.
C5_Witness ==
  \E m \in Ids :
    /\ msgs[m].kind = "rsvp"
    /\ acked[m]
    /\ proc[m].res = "Updated"
    /\ attendees[ReplyKey(m)].status = msgs[m].partstat
    /\ stats[system_statistics].rsvp[msgs[m].partstat] = 1
    /\ stats[system_statistics].rsvp["noaction"] = 0

\* C6: a reply whose status is the stored record's status ends as Duplicate,
\* and no step of that invocation writes the store: the record (status,
\* history) and every counter of every statistics record stay as they were.
C6_DuplicateRsvp ==
  [][\A m \in Ids :
       /\ ( /\ proc[m].pc = "get_current_attendee_record_for"
            /\ StepOf(m)
            /\ proc'[m].res # "Failed"
            /\ ReplyKey(m) \in DOMAIN attendees
            /\ attendees[ReplyKey(m)].status = msgs[m].partstat )
          => /\ proc'[m].res = "Duplicate"
             /\ proc'[m].pc = "delete_successfully_processed_sqs"
       /\ (StepOf(m) /\ "Duplicate" \in {proc[m].res, proc'[m].res})
          => UNCHANGED store
  ]_vars

\* C6 witness: a reply was acknowledged as Duplicate.
C6_Witness ==
  \E m \in Ids :
    /\ msgs[m].kind = "rsvp"
    /\ acked[m]
    /\ proc[m].res = "Duplicate"
    /\ attendees[ReplyKey(m)].status = msgs[m].partstat

\* The first k messages of the end-to-end workload are acknowledged and the
\* others were never delivered.
Done(k) ==
  /\ \A m \in 1 .. k : acked[m] /\ proc[m].pc = "idle"
  /\ \A m \in Ids \ (1 .. k) : ~acked[m] /\ proc[m] = IdleProc

\* The statistics records of the end-to-end event.
E2EScopes == Scopes("E1", Organizer)

\* C7: create ; record_invite(bulk, noaction) ; record_rsvp(accepted) ;
\* cancel, one after the other.  After create the Event is confirmed with the
\* request's sequence; after the invite invite_limit is one below its
\* creation value and attendees = 1, rsvp.noaction = 1 in the three scopes;
\* after the reply rsvp.noaction = 0 and rsvp.accepted = 1; after the cancel
\* status is cancelled and sequence one above its post-create value.  Without
\* a failure the four results are Created, Recorded, Updated, Cancelled.
C7_EndToEnd ==
  /\ \A k \in 1 .. 4 : Done(k) =>
       /\ "E1" \in DOMAIN events
       /\ E2EScopes \subseteq DOMAIN stats
       /\ faults = 0 =>
            <<proc[1].res, proc[2].res, proc[3].res, proc[4].res>>
              = [i \in 1 .. 4 |->
                   IF i > k THEN ""
                   ELSE <<"Created", "Recorded", "Updated", "Cancelled">>[i]]
  /\ Done(1) =>
       /\ events["E1"].status = "confirmed"
       /\ events["E1"].sequence = E2ECreationSequence
       /\ events["E1"].invite_limit = EVENT_INVITE_LIMIT
  /\ Done(2) =>
       /\ events["E1"].invite_limit = EVENT_INVITE_LIMIT - 1
       /\ \A key \in E2EScopes :
            stats[key].attendees = 1 /\ stats[key].rsvp["noaction"] = 1
  /\ Done(3) =>
       /\ \A key \in E2EScopes :
            /\ stats[key].rsvp["noaction"] = 0
            /\ stats[key].rsvp["accepted"] = 1
            /\ stats[key].attendees = 1
  /\ Done(4) =>
       /\ events["E1"].status = "cancelled"
       /\ events["E1"].sequence = E2ECreationSequence + 1

\* C7 witness: the whole trace ran without a failure.
C7_Witness == Done(4) /\ faults = 0 /\ proc[4].res = "Cancelled"

\* C11: every AttendeeRecord has a history whose last entry carries the
\* record's status, and there is one record per (uid, email): a step that
\* creates a record (an invite, a reply without a record) never replaces a
\* record that exists, and no record is ever removed.
C11_OneRecordStatusLastHistory ==
  /\ [](\A key \in DOMAIN attendees :
          /\ Len(attendees[key].history) >= 1
          /\ attendees[key].status
               = attendees[key].history[Len(attendees[key].history)][1])
  /\ [][/\ DOMAIN attendees \subseteq DOMAIN attendees'
        /\ \A m \in Ids :
             ( /\ StepOf(m)
               /\ proc[m].pc \in {"create_record_of_attendee",
                                  "submit_shared_event_attend_record_for"}
               /\ ReplyKey(m) \in DOMAIN attendees )
             => attendees' = attendees
     ]_vars

\* C11 witness: the record of an invited attendee took two replies.
C11_Witness ==
  /\ <<"E1", Attendee>> \in DOMAIN attendees
  /\ Len(attendees[<<"E1", Attendee>>].history) = 3
  /\ attendees[<<"E1", Attendee>>].origin = "bulk"

\* The number of AttendeeRecords among `keys` whose status is s.
WithStatus(keys, s) == Cardinality({key \in keys : attendees[key].status = s})

\* C12 (as claimed): every rsvp counter equals the number of AttendeeRecords
\* with that status: of the event in the event's record, of the organizer's
\* events in the organizer's record, of all events in the system record.
C12_RsvpCountsRecords ==
  \A s \in Statuses :
    /\ \A uid \in DOMAIN events :
         event_statistics(uid) \in DOMAIN stats
           => stats[event_statistics(uid)].rsvp[s]
                = WithStatus({key \in DOMAIN attendees : key[1] = uid}, s)
    /\ \A mailto \in {Organizer, OtherOrganizer} :
         organizer_statistics(mailto) \in DOMAIN stats
           => stats[organizer_statistics(mailto)].rsvp[s]
                = WithStatus({key \in DOMAIN attendees :
                               attendees[key].mailto = mailto}, s)
    /\ stats[system_statistics].rsvp[s] = WithStatus(DOMAIN attendees, s)

\* C14: a lookup names an Event that exists; the step that writes a lookup
\* writes that Event from the same request; a lookup that exists is never
\* changed or removed.
C14_LookupWithEvent ==
  /\ [](\A original_uid \in DOMAIN lookup :
          lookup[original_uid].uid \in DOMAIN events)
  /\ [][/\ \A original_uid \in DOMAIN lookup :
             /\ original_uid \in DOMAIN lookup'
             /\ lookup'[original_uid] = lookup[original_uid]
        /\ \A original_uid \in DOMAIN lookup' \ DOMAIN lookup :
             \E m \in Ids :
               /\ StepOf(m)
               /\ msgs[m].original_uid = original_uid
               /\ lookup'[original_uid].uid = msgs[m].uid
               /\ msgs[m].uid \notin DOMAIN events
               /\ events'[msgs[m].uid] = stage_request_from(msgs[m])
     ]_vars

\* C14 witness: a request for an original_uid whose lookup names another
\* event went through as AlreadyExists, and the lookup still names that event.
C14_Witness ==
  /\ "X" \in DOMAIN lookup
  /\ lookup["X"].uid = "E1"
  /\ acked[3]
  /\ proc[3].res = "AlreadyExists"

\* The AttendeeRecords stored for an event.
RecordsOf(uid) == {key \in DOMAIN attendees : key[1] = uid}

\* C13: every AttendeeRecord belongs to an event that has a statistics
\* record, and the attendees counter of an event's statistics record is the
\* number of AttendeeRecords stored for the event.
C13_AttendeesCountsRecords ==
  /\ \A key \in DOMAIN attendees : event_statistics(key[1]) \in DOMAIN stats
  /\ \A uid \in DOMAIN events :
       event_statistics(uid) \in DOMAIN stats
         => stats[event_statistics(uid)].attendees = Cardinality(RecordsOf(uid))

\* C13 witness: two attendees are recorded, one invited and one shared, an
\* invocation failed, and both invites of the one attendee are acknowledged.
C13_Witness ==
  /\ Cardinality(RecordsOf("E1")) = 2
  /\ attendees[<<"E1", Attendee>>].origin = "bulk"
  /\ faults > 0
  /\ acked[2] /\ acked[3]

\* C15: an invite whose origin is not test and whose attendee has a record
\* when the record is looked up ends as AlreadySent, and no step of such an
\* invocation writes the store (AttendeeRecords, invite_limit, statistics) or
\* sends an email.
C15_AlreadySentNoEffect ==
  [][\A m \in Ids :
       /\ ( /\ proc[m].pc = "attendee_has_not_been_sent"
            /\ StepOf(m)
            /\ proc'[m].res # "Failed"
            /\ msgs[m].origin # "test"
            /\ ReplyKey(m) \in DOMAIN attendees )
          => /\ proc'[m].res = "AlreadySent"
             /\ proc'[m].pc = "delete_successfully_processed_sqs"
       /\ (StepOf(m) /\ "AlreadySent" \in {proc[m].res, proc'[m].res})
          => UNCHANGED <<store, sent>>
  ]_vars

\* C15 witness: an invite was acknowledged as AlreadySent.
C15_Witness ==
  \E m \in Ids :
    /\ msgs[m].kind = "invite"
    /\ acked[m]
    /\ proc[m].res = "AlreadySent"

\* C16: no (event, attendee) pair is sent more than one invite email (every
\* invite of the workload has a non-test origin).
C16_OneEmailPerPair ==
  /\ \A m \in Ids : msgs[m].kind = "invite" => msgs[m].origin # "test"
  /\ \A key \in DOMAIN sent : sent[key] <= 1

\* C16 witness: two invites of one pair are both acknowledged, one of them
\* after a redelivery, and one email was sent.
C16_Witness ==
  /\ acked[2] /\ acked[3]
  /\ ReplyKey(2) = ReplyKey(3)
  /\ faults > 0
  /\ Count(sent, ReplyKey(2)) = 1

\* C17: the transaction of a reply for a pair without a record creates the
\* record with origin shared, the reply's status and a history of one entry;
\* in the event, organizer and system records attendees, origin[shared],
\* prodid[reply's prodid] and rsvp[reply's status] go up by 1 and the other
\* rsvp counters stay; no Event (invite_limit) changes.
C17_SharedAttendee ==
  [][\A m \in Ids :
       ( /\ proc[m].pc = "submit_shared_event_attend_record_for"
         /\ StepOf(m)
         /\ proc'[m].res = "SharedCreated" )
       => /\ ReplyKey(m) \notin DOMAIN attendees
          /\ DOMAIN attendees' = DOMAIN attendees \cup {ReplyKey(m)}
          /\ \A key \in DOMAIN attendees : attendees'[key] = attendees[key]
          /\ attendees'[ReplyKey(m)].origin = "shared"
          /\ attendees'[ReplyKey(m)].status = msgs[m].partstat
          /\ Len(attendees'[ReplyKey(m)].history) = 1
          /\ attendees'[ReplyKey(m)].history[1][1] = msgs[m].partstat
          /\ events' = events
          /\ \A key \in {event_statistics(msgs[m].uid),
                         organizer_statistics(events[msgs[m].uid].mailto),
                         system_statistics} :
               /\ stats'[key].attendees = stats[key].attendees + 1
               /\ Count(stats'[key].origin, "shared")
                    = Count(stats[key].origin, "shared") + 1
               /\ Count(stats'[key].prodid, msgs[m].prodid)
                    = Count(stats[key].prodid, msgs[m].prodid) + 1
               /\ stats'[key].rsvp[msgs[m].partstat]
                    = stats[key].rsvp[msgs[m].partstat] + 1
               /\ \A s \in Statuses \ {msgs[m].partstat} :
                    stats'[key].rsvp[s] = stats[key].rsvp[s]
  ]_vars

\* C17 witness: the reply of the attendee who was never invited is
\* acknowledged as SharedCreated and counted in the system record.
C17_Witness ==
  /\ acked[5]
  /\ proc[5].res = "SharedCreated"
  /\ attendees[ReplyKey(5)].origin = "shared"
  /\ Count(stats[system_statistics].origin, "shared") >= 1

\* C18: the step that deletes a message is the last step of an invocation
\* that did not raise (it writes and publishes nothing, and ends the
\* invocation); an invocation that raises deletes nothing; and once a message
\* is deleted no invocation works on it again, so every write and publish for
\* it came before.
C18_AckIsLast ==
  [][\A m \in Ids :
       /\ (acked'[m] /\ ~acked[m])
          => /\ proc[m].pc = "delete_successfully_processed_sqs"
             /\ proc[m].res # "Failed"
             /\ proc'[m].pc = "idle"
             /\ proc'[m].res = proc[m].res
             /\ UNCHANGED <<store, published, sent>>
       /\ (StepOf(m) /\ proc'[m].res = "Failed") => acked'[m] = acked[m]
       /\ acked[m] => (proc'[m] = proc[m] /\ acked'[m])
  ]_vars

\* C18 witness: the cancel, the invite and the reply are acknowledged after
\* their write, publish and email, one of the deliveries having failed.
C18_Witness ==
  /\ acked[3] /\ proc[3].res = "Cancelled"
  /\ acked[4] /\ proc[4].res = "Recorded"
  /\ acked[5]
  /\ Count(published, <<"EVENT_CANCELLED", "E1">>) >= 1
  /\ Count(sent, <<"E1", Attendee>>) = 1
  /\ faults > 0

\* The records of a batch.
RecordsIn(b) == {tasks[b].records[i] : i \in DOMAIN tasks[b].records}

\* C19 (as claimed): when a handler invocation is over (it raised, or it
\* returned and the queue took its batch back), every message of its batch
\* whose processing ended without an exception is deleted from the queue.
C19_CompletedIsAcknowledged ==
  \A b \in DOMAIN tasks :
    tasks[b].result \in {"Raised", "Deleted"}
      => \A m \in RecordsIn(b) : proc[m].res # "Failed" => acked[m]

\* C20: the loop calls process_request_from on every record of the batch,
\* whatever happened to the records before it; the invocation ends only after
\* the last record, and it raises if the processing of some record of the
\* batch raised and returns "Complete" if none did.
C20_BatchResult ==
  [][\A b \in DOMAIN tasks :
       /\ ( /\ tasks'[b].index = tasks[b].index + 1
            /\ tasks[b].index < Len(tasks[b].records) )
          => proc'[tasks[b].records[tasks[b].index + 1]].pc
               = FirstStep(msgs[tasks[b].records[tasks[b].index + 1]].kind)
       /\ (tasks[b].result = "" /\ tasks'[b].result # "")
          => /\ tasks[b].index = Len(tasks[b].records) + 1
             /\ \A m \in RecordsIn(b) : proc[m].pc = "idle" /\ proc[m].res # ""
             /\ tasks'[b].result =
                  IF \E m \in RecordsIn(b) : proc[m].res = "Failed"
                    THEN "Raised" ELSE "Complete"
  ]_vars

\* C20 witness: the cancel handler raised on a batch whose first record
\* failed and whose later records were processed, and the update handler
\* returned Complete.
C20_Witness ==
  /\ tasks[2].result = "Raised"
  /\ tasks[2].records = <<4, 5, 6>>
  /\ proc[4].res = "Failed"
  /\ proc[5].res = "Cancelled"
  /\ proc[6].res = "AlreadyCancelled"
  /\ tasks[1].result = "Deleted"

\* C21 (as claimed): an insert-if-absent transaction (an invite's, a shared
\* reply's) submitted for a pair whose record another processor has created
\* in the meantime does not end its invocation by an exception.
C21_LoserDoesNotRaise ==
  [][\A m \in Ids :
       ( /\ StepOf(m)
         /\ proc[m].pc \in {"create_record_of_attendee",
                            "submit_shared_event_attend_record_for"}
         /\ ReplyKey(m) \in DOMAIN attendees
         /\ faults' = faults )
       => proc'[m].res # "Failed"
  ]_vars

\* C25 (as claimed): no rsvp counter of any statistics record is negative.
C25_CountersNonNegative ==
  \A key \in DOMAIN stats : \A s \in Statuses : stats[key].rsvp[s] >= 0

\* C22 (as claimed): a create transaction that is cancelled although no
\* lookup exists for the request's original_uid (a conflict, throttling) ends
\* the invocation by an exception: it is not taken for AlreadyExists.
C22_OtherCancellationSurfaced ==
  [][\A m \in Ids :
       ( /\ StepOf(m)
         /\ proc[m].pc = "create_new_event_record"
         /\ create_condition(msgs[m])
         /\ lookup' = lookup )
       => /\ proc'[m].res = "Failed"
          /\ proc'[m].pc = "idle"
  ]_vars

\* C23 (as claimed): the transaction of a new-event request whose uid has an
\* Event record leaves that Event and its statistics record as they are.
C23_ExistingEventKept ==
  [][\A m \in Ids :
       ( /\ StepOf(m)
         /\ proc[m].pc = "create_new_event_record"
         /\ msgs[m].uid \in DOMAIN events )
       => /\ events' = events
          /\ stats'[event_statistics(msgs[m].uid)]
               = stats[event_statistics(msgs[m].uid)]
  ]_vars

\* C24 (as claimed): no step of an invocation on a test-origin invite writes
\* the store (AttendeeRecords, invite_limit, statistics).
C24_TestInviteWritesNothing ==
  [][\A m \in Ids :
       (StepOf(m) /\ msgs[m].kind = "invite" /\ msgs[m].origin = "test")
       => UNCHANGED store
  ]_vars

\* The sequence h is a prefix of the sequence g.
IsPrefix(h, g) == Len(h) <= Len(g) /\ SubSeq(g, 1, Len(h)) = h

\* C26: the history of an AttendeeRecord only grows by appending: a record is
\* never removed, and its history in a state is a prefix of its history in
\* the next state (so of every later state).
C26_HistoryAppendOnly ==
  [][\A key \in DOMAIN attendees :
       /\ key \in DOMAIN attendees'
       /\ IsPrefix(attendees[key].history, attendees'[key].history)
  ]_vars

\* C26 witness: a record whose history starts by the invite's entry and has
\* the entries of two replies behind it.
C26_Witness ==
  \E key \in DOMAIN attendees :
    /\ Len(attendees[key].history) = 3
    /\ attendees[key].history[1][1] = "noaction"
    /\ attendees[key].history[2][1] # attendees[key].history[3][1]

\* The Event as update_event's expression leaves it, but for the sequence:
\* the eight fields from the request (as stored), the two timestamps.
WithContent(event, new_event, timestamp) ==
  [event EXCEPT !.summary = Str(new_event.summary),
                !.summary_html = Str(new_event.summary_html),
                !.location = Str(new_event.location),
                !.location_html = Str(new_event.location_html),
                !.dtend = new_event.dtend,
                !.dtstart = new_event.dtstart,
                !.description = Str(new_event.description),
                !.description_html = Str(new_event.description_html),
                !.dtstamp = timestamp,
                !.last_modified = timestamp]

\* C27 (as claimed): the commit of an update leaves the stored Event with the
\* request's eight content fields, dtstamp and last_modified at the instant
\* of the commit and the sequence one above the stored one; its other fields
\* (status, method, organizer, invite_limit), every other Event and every
\* lookup, AttendeeRecord and StatisticsRecord are as before.
C27_UpdateFrame ==
  [][\A m \in Ids :
       ( /\ StepOf(m)
         /\ proc[m].pc = "update_event"
         /\ proc'[m].res = "Updated" )
       => /\ events' = [events EXCEPT ![proc[m].uid] =
                          [WithContent(@, msgs[m].content, clock')
                             EXCEPT !.sequence = @ + 1]]
          /\ UNCHANGED <<lookup, attendees, stats>>
  ]_vars

\* The eight content fields of a stored Event.
ContentOf(event) == [val \in update_fields |-> event[val]]

\* The eight content fields as a request's values are stored.
StoredContent(new_event) ==
  [val \in update_fields |->
     IF val \in string_fields THEN Str(new_event[val]) ELSE new_event[val]]

\* The update requests of an original_uid that have committed.
CommittedUpdates(original_uid) ==
  {m \in Ids : /\ msgs[m].kind = "update"
               /\ msgs[m].original_uid = original_uid
               /\ proc[m].res = "Updated"}

\* C28: the eight content fields of a stored Event are at every moment those
\* of one request for it, all eight; once two concurrent updates have both
\* committed they are entirely the first's or entirely the second's, never
\* some fields of one and some of the other.
C28_LastWriteWinsWhole ==
  \A original_uid \in DOMAIN lookup :
    LET uid == lookup[original_uid].uid IN
    uid \in DOMAIN events =>
      /\ \E m \in Ids :
           /\ msgs[m].kind \in {"create", "update"}
           /\ msgs[m].original_uid = original_uid
           /\ ContentOf(events[uid]) = StoredContent(msgs[m].content)
      /\ Cardinality(CommittedUpdates(original_uid)) >= 2
           => \E m \in CommittedUpdates(original_uid) :
                ContentOf(events[uid]) = StoredContent(msgs[m].content)

\* C28 witness: two updates with different contents were in flight together
\* (each read the Event before the other wrote) and both have committed.
C28_Witness ==
  \E m1, m2 \in CommittedUpdates("X") :
    /\ msgs[m1].content # msgs[m2].content
    /\ proc[m1].sequence = proc[m2].sequence
    /\ ContentOf(events["E1"]) = StoredContent(msgs[m2].content)

\* The invite transactions that have committed for an event: each one put
\* the record of its attendee.
CommittedInvites(uid) == Cardinality(RecordsOf(uid))

\* C29: after N invite transactions for distinct attendees of an event have
\* committed, in any interleaving with each other and with an update and a
\* cancel of the event, the event's invite_limit is N below its creation
\* value and the attendees counter is N in the event's, the organizer's and
\* the system's statistics; no step of an update or a cancel changes either.
C29_NoLostDelta ==
  /\ [](\A uid \in DOMAIN events :
          /\ events[uid].invite_limit
               = EVENT_INVITE_LIMIT - CommittedInvites(uid)
          /\ \A key \in {event_statistics(uid),
                         organizer_statistics(events[uid].mailto),
                         system_statistics} :
               stats[key].attendees = CommittedInvites(uid))
  /\ [][\A m \in Ids :
          (StepOf(m) /\ msgs[m].kind \in {"update", "cancel"})
          => /\ stats' = stats
             /\ \A uid \in DOMAIN events :
                  events'[uid].invite_limit = events[uid].invite_limit
     ]_vars

\* C29 witness: the invites of two attendees, the update and the cancel of
\* the event have all committed.
C29_Witness ==
  /\ CommittedInvites("E1") = 2
  /\ events["E1"].invite_limit = EVENT_INVITE_LIMIT - 2
  /\ stats[system_statistics].attendees = 2
  /\ events["E1"].status = "cancelled"
  /\ CommittedUpdates("X") # {}

\* C30 (as claimed): the transaction of an invite or a reply whose condition
\* on the attendee's record holds commits, whatever origin, prodid or status
\* value it counts, in every scope: no counter has to be there before.
C30_FirstUseCommits ==
  [][\A m \in Ids :
       ( /\ StepOf(m)
         /\ faults' = faults
         /\ msgs[m].uid \in DOMAIN events
         /\ \/ /\ proc[m].pc \in {"create_record_of_attendee",
                                  "submit_shared_event_attend_record_for"}
               /\ ReplyKey(m) \notin DOMAIN attendees
            \/ /\ proc[m].pc = "submit_updated_event_attend_record_for"
               /\ ReplyKey(m) \in DOMAIN attendees )
       => /\ proc'[m].res \in {"Recorded", "Updated", "SharedCreated"}
          /\ stats' # stats
  ]_vars

\* The update and cancel messages whose original_uid has no lookup.
Unresolved ==
  {m \in Ids : /\ msgs[m].kind \in {"update", "cancel"}
               /\ ~Resolves(msgs[m].original_uid)}

\* C31: an update or cancel message whose original_uid has no lookup is
\* never acknowledged; no step of an invocation on it writes the store or
\* publishes, its look-up step ends the invocation by an exception, the
\* handler's loop counts that exception, and a batch that carries the message
\* never returns "Complete".
C31_UnresolvedFails ==
  /\ [](/\ \A m \in Unresolved : ~acked[m]
        /\ \A b \in DOMAIN tasks :
             (\E m \in Unresolved : m \in RecordsIn(b))
               => tasks[b].result \notin {"Complete", "Deleted"})
  /\ [][/\ \A m \in Unresolved :
             StepOf(m) =>
               /\ UNCHANGED <<store, published, acked>>
               /\ proc[m].pc # "idle"
                    => proc'[m].pc = "idle" /\ proc'[m].res = "Failed"
        /\ \A b \in DOMAIN tasks :
             ( /\ tasks[b].result = ""
               /\ tasks[b].index \in DOMAIN tasks[b].records
               /\ tasks[b].records[tasks[b].index] \in Unresolved
               /\ tasks'[b].index = tasks[b].index + 1 )
             => tasks'[b].failed = tasks[b].failed + 1
     ]_vars

\* C31 witness: both batches with an unresolved message were invoked again
\* after raising, the messages for the event that exists are acknowledged,
\* and the unresolved ones have failed again.
C31_Witness ==
  /\ \A m \in Unresolved : proc[m].res = "Failed" /\ ~acked[m]
  /\ Unresolved = {2, 3}
  /\ acked[4] /\ acked[5]
  /\ tasks[1].records = <<2>> /\ tasks[1].failed = 1
  /\ tasks[2].records = <<3>> /\ tasks[2].failed = 1
  /\ tasks[3].result = "Deleted"

\* C32 (as claimed): once every cancel message of an event is acknowledged
\* (no delivery of any of them is left to come), an "event cancelled"
\* notification has been published for the event.
C32_CancelledIsNotified ==
  \A original_uid \in DOMAIN lookup :
    LET cancels == {m \in Ids : /\ msgs[m].kind = "cancel"
                                /\ msgs[m].original_uid = original_uid}
    IN (cancels # {} /\ \A m \in cancels : acked[m])
         => Count(published,
                  <<"EVENT_CANCELLED", lookup[original_uid].uid>>) >= 1

\* The invite messages for an (event, attendee) pair.
InvitesFor(key) ==
  {m \in Ids : msgs[m].kind = "invite" /\ ReplyKey(m) = key}

\* C33 (as claimed): once every invite message for an (event, attendee) pair
\* is acknowledged, none of them a test, and the AttendeeRecord an invite
\* created for the pair exists, the invite email for the pair has been sent.
C33_RecordedIsSent ==
  \A key \in DOMAIN attendees :
    ( /\ attendees[key].origin # "shared"
      /\ InvitesFor(key) # {}
      /\ \A m \in InvitesFor(key) : acked[m] /\ msgs[m].origin # "test" )
    => Count(sent, key) >= 1

\* C34 (as claimed): whatever the deliveries and interleavings of the cancel
\* messages of an event, at most one "event cancelled" notification is
\* published for it, and only one cancel writes the Event: a cancel never
\* writes an Event that is cancelled in the store.
C34_OneCancellation ==
  /\ [](\A uid \in DOMAIN events :
          Count(published, <<"EVENT_CANCELLED", uid>>) <= 1)
  /\ [][\A m \in Ids :
          (StepOf(m) /\ proc[m].pc = "cancel_event"
                     /\ proc'[m].res = "Cancelled")
          => events[proc[m].uid].status # "cancelled"
     ]_vars

\* Reply m has been applied to its attendee's record before: the record's
\* history has its entry.
Applied(m) ==
  /\ ReplyKey(m) \in DOMAIN attendees
  /\ LET history == attendees[ReplyKey(m)].history IN
     \E i \in DOMAIN history :
       history[i][1] = msgs[m].partstat /\ history[i][3] = msgs[m].prodid

\* C35 (as claimed): a delivery of a reply that was applied before, made when
\* a reply of another status has been applied after it, changes neither the
\* AttendeeRecord nor any rsvp counter.
C35_OlderReplyIgnored ==
  [][\A m \in Ids :
       ( /\ StepOf(m)
         /\ msgs[m].kind = "rsvp"
         /\ Applied(m)
         /\ attendees[ReplyKey(m)].status # msgs[m].partstat )
       => UNCHANGED <<attendees, stats>>
  ]_vars

\* C36: every AttendeeRecord is that of an Event that exists; an invite or a
\* reply for a uid without an Event is never acknowledged, and no step of an
\* invocation on it writes the store or sends an email: its transaction step
\* or its read of the Event ends the invocation by an exception.
C36_RecordsHaveEvents ==
  /\ [](/\ \A key \in DOMAIN attendees : key[1] \in DOMAIN events
        /\ \A m \in Ids :
             (msgs[m].kind \in {"invite", "rsvp"}
                /\ msgs[m].uid \notin DOMAIN events)
             => ~acked[m] /\ proc[m].res \in {"", "Failed"})
  /\ [][\A m \in Ids :
          ( /\ StepOf(m)
            /\ msgs[m].kind \in {"invite", "rsvp"}
            /\ msgs[m].uid \notin DOMAIN events )
          => /\ UNCHANGED <<store, sent>>
             /\ proc[m].pc \in {"create_record_of_attendee",
                                "updated_get_organizer_for",
                                "shared_get_organizer_for"}
                  => proc'[m].pc = "idle" /\ proc'[m].res = "Failed"
     ]_vars

\* C36 witness: the invite and the reply for the uid without an Event have
\* both failed, at the transaction and at the read of the Event, while the
\* attendee of the event that exists is recorded.
C36_Witness ==
  /\ \A m \in {2, 3} : /\ msgs[m].uid \notin DOMAIN events
                       /\ proc[m].res = "Failed"
                       /\ proc[m].pc = "idle"
  /\ faults = 0
  /\ DOMAIN attendees = {<<"E1", Attendee>>}
  /\ acked[4] /\ acked[5]

\* C37 (as claimed): an event's invite_limit is the configured default minus
\* the number of the event's AttendeeRecords whose origin is not shared.
C37_InviteLimitCountsInvites ==
  \A uid \in DOMAIN events :
    events[uid].invite_limit
      = EVENT_INVITE_LIMIT
          - Cardinality({key \in RecordsOf(uid) :
                           attendees[key].origin # "shared"})

\* The sum of the attendees counters of the statistics records of a set of
\* keys.
RECURSIVE SumAttendees(_)
SumAttendees(keys) ==
  IF keys = {} THEN 0
  ELSE LET key == CHOOSE k \in keys : TRUE
       IN stats[key].attendees + SumAttendees(keys \ {key})

\* The statistics records of one scope.
ScopeKeys(scope) == {key \in DOMAIN stats : key[1] = scope}

\* C38 (as claimed): the system's attendees counter is the sum of the
\* organizers' attendees counters, which is the sum of the events'.
C38_ScopesAgree ==
  /\ stats[system_statistics].attendees
       = SumAttendees(ScopeKeys("organizer_statistics"))
  /\ SumAttendees(ScopeKeys("organizer_statistics"))
       = SumAttendees(ScopeKeys("event_statistics"))

\* C39 (as claimed): the commit of a reply on an existing AttendeeRecord
\* leaves the record's created instant, origin, mailto, name and attendee
\* fields as they were (it changes status, prodid and history only), and
\* leaves every other record alone.
C39_ReplyFrame ==
  [][\A m \in Ids :
       ( /\ StepOf(m)
         /\ proc[m].pc = "submit_updated_event_attend_record_for"
         /\ proc'[m].res = "Updated" )
       => /\ attendees' = [attendees EXCEPT ![ReplyKey(m)] =
                             [@ EXCEPT
                                !.status = attendees'[ReplyKey(m)].status,
                                !.prodid = attendees'[ReplyKey(m)].prodid,
                                !.history = attendees'[ReplyKey(m)].history]]
  ]_vars

\* The new-event requests whose organizer has no email or is suspended.
Unauthorized ==
  {m \in Ids : /\ msgs[m].kind = "create"
               /\ \/ msgs[m].mailto = NoneVal
                  \/ account_is_suspended(msgs[m].mailto)}

\* C40: a new-event request whose organizer has no email or is suspended
\* leaves the table without a lookup, an Event, an event statistics record
\* or an organizer statistics record for it and publishes nothing; no step of
\* an invocation on it writes the store or publishes, and its check of the
\* organizer goes on to the delete of the message.
C40_UnauthorizedCreate ==
  /\ [](\A m \in Unauthorized :
          /\ msgs[m].original_uid \notin DOMAIN lookup
          /\ msgs[m].uid \notin DOMAIN events
          /\ event_statistics(msgs[m].uid) \notin DOMAIN stats
          /\ organizer_statistics(msgs[m].mailto) \notin DOMAIN stats
          /\ \A topic \in Topics :
               Count(published, <<topic, msgs[m].uid>>) = 0)
  /\ [][\A m \in Unauthorized :
          StepOf(m) =>
            /\ UNCHANGED <<store, published, sent>>
            /\ (proc[m].pc = "get_organizer_details" /\ faults' = faults)
                 => /\ proc'[m].pc = "delete_successfully_processed_sqs"
                    /\ proc'[m].res = "Unauthorized"
            /\ proc[m].pc = "delete_successfully_processed_sqs"
                 => acked'[m] \/ faults' # faults
     ]_vars

\* C40 witness: the requests of the suspended organizer and of the one
\* without an email are acknowledged, one of them on its second delivery,
\* and the table holds the one event of the organizer who can send.
C40_Witness ==
  /\ Unauthorized = {1, 2}
  /\ \A m \in Unauthorized : acked[m] /\ proc[m].res = "Unauthorized"
  /\ faults > 0
  /\ DOMAIN events = {"E3"}
  /\ DOMAIN lookup = {"Z"}

====
